---- MODULE Spec2Model ----
(***************************************************************************)
(* preworkd: the validation dashboard's job-id resolver, its bounded       *)
(* result cache over localStorage and the validate / refresh flow of the   *)
(* dashboard page.  Strings are tuples of one-character strings so that    *)
(* trim, split, the UUID regex and URL parsing are computed, not assumed.  *)
(***************************************************************************)
EXTENDS Integers, Sequences, FiniteSets, TLC

VARIABLES
    arg,              \* extractJobId: the input string handed to it
    ret,              \* extractJobId: what the call produced (Pending before the call)
    cacheStore,       \* localStorage['validationCache']
    historyStore,     \* localStorage['validatedJobIds']
    storedEndpoint,   \* localStorage['apiEndpoint']
    isAuthenticated,  \* useState(false)
    loading,          \* useState(false)
    result,           \* useState<ApiResponse | null>(null)
    error,            \* useState<string | null>(null)
    currentJobId,     \* useState<string>("")
    isFromCache,      \* useState(false)
    cacheTimestamp,   \* useState<string>('')
    inflight,         \* fetches awaiting their response, in the order they were issued
    now,              \* the clock read by new Date()
    browseView,       \* the browse page: "closed", "shown", or "error" when it threw
    jobHistory,       \* the browse page: useState<JobEntry[]>([])
    domains,          \* extractDomain and extractDomainForSearch: what they gave for arg
    jobEntries,       \* useState<JobEntry[]>([]), the list loaded from /reworkd_ids.json
    inputBox,         \* useState(""), the text of the input box (input in the source)
    searchResults,    \* useState<JobEntry[]>([])
    showSearchResults,\* useState(false)
    request,          \* the proxy route: the GET it is serving
    upstream,         \* the proxy route: the requests its fetch has sent, in order
    response          \* the proxy route: the NextResponse it returned, Null before

vars == <<arg, ret, cacheStore, historyStore, storedEndpoint, isAuthenticated, loading, result, error, currentJobId, isFromCache,
          cacheTimestamp, inflight, now, browseView, jobHistory, domains, jobEntries, inputBox,
          searchResults, showSearchResults, request, upstream, response>>

resolverVars == <<arg, ret>>
searchVars == <<jobEntries, inputBox, searchResults, showSearchResults>>
proxyVars == <<request, upstream, response>>
browseVars == <<browseView, jobHistory>>
otherVars == <<browseVars, domains, searchVars, proxyVars>>
storageVars == <<cacheStore, historyStore, storedEndpoint>>
pageVars == <<isAuthenticated, loading, result, error, currentJobId, isFromCache,
              cacheTimestamp, inflight>>

----------------------------------------------------------------------------
(* Strings *)

\* null / a value: a JavaScript `T | null` is the empty tuple or a 1-tuple
Null == <<>>
Some(x) == <<x>>

Digits == {"0", "1", "2", "3", "4", "5", "6", "7", "8", "9"}
LowerHex == {"a", "b", "c", "d", "e", "f"}
UpperHex == {"A", "B", "C", "D", "E", "F"}

\* the characters String.prototype.trim removes (those the inputs use)
WhiteSpace == {" ", "\t", "\n", "\r"}

LowerLetters == <<"a", "b", "c", "d", "e", "f", "g", "h", "i", "j", "k", "l", "m",
                  "n", "o", "p", "q", "r", "s", "t", "u", "v", "w", "x", "y", "z">>
UpperLetters == <<"A", "B", "C", "D", "E", "F", "G", "H", "I", "J", "K", "L", "M",
                  "N", "O", "P", "Q", "R", "S", "T", "U", "V", "W", "X", "Y", "Z">>

Range(f) == {f[i] : i \in DOMAIN f}
IndexIn(c, letters) == CHOOSE i \in DOMAIN letters : letters[i] = c

lowerChar(c) == IF c \in Range(UpperLetters) THEN LowerLetters[IndexIn(c, UpperLetters)] ELSE c
upperChar(c) == IF c \in Range(LowerLetters) THEN UpperLetters[IndexIn(c, LowerLetters)] ELSE c

toLowerCase(s) == [i \in 1..Len(s) |-> lowerChar(s[i])]
toUpperCase(s) == [i \in 1..Len(s) |-> upperChar(s[i])]

RECURSIVE trimStart(_)
trimStart(s) == IF s # <<>> /\ Head(s) \in WhiteSpace THEN trimStart(Tail(s)) ELSE s

RECURSIVE trimEnd(_)
trimEnd(s) ==
    IF s # <<>> /\ s[Len(s)] \in WhiteSpace THEN trimEnd(SubSeq(s, 1, Len(s) - 1)) ELSE s

trim(s) == trimEnd(trimStart(s))

\* String.prototype.split(sep) for a one-character separator: "" gives [""]
RECURSIVE splitFrom(_, _, _, _)
splitFrom(s, sep, cur, parts) ==
    IF s = <<>> THEN Append(parts, cur)
    ELSE IF Head(s) = sep THEN splitFrom(Tail(s), sep, <<>>, Append(parts, cur))
    ELSE splitFrom(Tail(s), sep, Append(cur, Head(s)), parts)

split(s, sep) == splitFrom(s, sep, <<>>, <<>>)

----------------------------------------------------------------------------
(* extractJobId *)

\* /^[0-9a-f]{8}-[0-9a-f]{4}-[0-9a-f]{4}-[0-9a-f]{4}-[0-9a-f]{12}$/i
UuidGroups == <<8, 4, 4, 4, 12>>

RECURSIVE matchGroups(_, _)
matchGroups(s, groups) ==
    LET n == Head(groups) IN
    /\ Len(s) >= n
    /\ \A i \in 1..n : s[i] \in Digits \cup LowerHex \cup UpperHex
    /\ IF Len(groups) = 1 THEN Len(s) = n
       ELSE /\ Len(s) > n
            /\ s[n + 1] = "-"
            /\ matchGroups(SubSeq(s, n + 2, Len(s)), Tail(groups))

uuidRegexTest(s) == matchGroups(s, UuidGroups)

InvalidFormatMessage == "Invalid job ID or URL format"

Returned(v) == [ok |-> TRUE, value |-> v, message |-> ""]
Thrown(m) == [ok |-> FALSE, value |-> <<>>, message |-> m]

\* a resolver that tests the first path segment instead of the last
extractJobIdFirstPart(input) ==
    LET trimmedInput == trim(input)
        parts == split(trimmedInput, "/")
        firstPart == parts[1]
    IN  IF uuidRegexTest(trimmedInput) THEN Returned(trimmedInput)
        ELSE IF uuidRegexTest(firstPart) THEN Returned(firstPart)
        ELSE Thrown(InvalidFormatMessage)

\* a resolver that returns the last path segment without testing it
extractJobIdUnchecked(input) ==
    LET trimmedInput == trim(input)
        parts == split(trimmedInput, "/")
        lastPart == parts[Len(parts)]
    IN  IF uuidRegexTest(trimmedInput) THEN Returned(trimmedInput)
        ELSE Returned(lastPart)

extractJobId(input) ==
    LET trimmedInput == trim(input)
        parts == split(trimmedInput, "/")
        lastPart == parts[Len(parts)]
    IN  IF uuidRegexTest(trimmedInput) THEN Returned(trimmedInput)
        ELSE IF uuidRegexTest(lastPart) THEN Returned(lastPart)
        ELSE Thrown(InvalidFormatMessage)

----------------------------------------------------------------------------
(* Inputs of extractJobId *)

\* "123e4567-e89b-12d3-a456-426614174000"
SampleUuid ==
    <<"1", "2", "3", "e", "4", "5", "6", "7", "-", "e", "8", "9", "b", "-",
      "1", "2", "d", "3", "-", "a", "4", "5", "6", "-",
      "4", "2", "6", "6", "1", "4", "1", "7", "4", "0", "0", "0">>

UpperUuid == toUpperCase(SampleUuid)

\* "123E4567-e89b-..." : only the first group in upper case
MixedUuid == [i \in 1..Len(SampleUuid) |-> IF i <= 8 THEN UpperUuid[i] ELSE SampleUuid[i]]

\* a UUID whose hexadecimal digits are all the character c
DigitUuid(c) == [i \in 1..36 |-> IF i \in {9, 14, 19, 24} THEN "-" ELSE c]

NotAUuid == <<"n", "o", "t", "-", "a", "-", "u", "u", "i", "d">>

ResolverTokens ==
    { SampleUuid, UpperUuid, MixedUuid, DigitUuid("7"),
      NotAUuid,
      <<"g">> \o Tail(SampleUuid),
      Tail(SampleUuid),
      SampleUuid \o <<"0">>,
      <<>> }

ResolverPrefixes ==
    { <<>>,
      <<"h", "t", "t", "p", "s", ":", "/", "/", "x", ".", "a", "i", "/", "j", "/">>,
      <<"/">>,
      <<"j", "/">>,
      <<"x">> }

ResolverSuffixes == { <<>>, <<"/">>, <<"/", "/">>, <<"?", "a">>, <<"/", "x">> }

ResolverWraps == { <<<<>>, <<>>>>, <<<<" ">>, <<" ", "\n">>>> }

ResolverInputs ==
    { w[1] \o p \o t \o s \o w[2] :
        w \in ResolverWraps, p \in ResolverPrefixes, t \in ResolverTokens, s \in ResolverSuffixes }

Pending == [ok |-> FALSE, value |-> <<>>, message |-> "pending"]

----------------------------------------------------------------------------
(* The result cache over localStorage *)

MAX_CACHE_SIZE == 5

\* a localStorage item: getItem gives null (absent) or the stored JSON text
NoItem == [kind |-> "absent", jobs |-> <<>>]
JsonItem(jobs) == [kind |-> "json", jobs |-> jobs]
\* a stored text JSON.parse rejects, and the stored text "null"
UnparseableItem == [kind |-> "unparseable", jobs |-> <<>>]
NullItem == [kind |-> "null", jobs |-> <<>>]

\* JSON.parse(localStorage.getItem(key) || '[]') throws a SyntaxError
parseThrows(store) == store.kind = "unparseable"
\* JSON.parse(localStorage.getItem(key) || '[]') gives null: find, filter and length of it
\* throw a TypeError
parsesToNull(store) == store.kind = "null"

SyntaxErrorMessage == "Unexpected token"
TypeErrorMessage == "Cannot read properties of null"

\* Array.prototype.slice(0, n)
slice0(s, n) == SubSeq(s, 1, IF Len(s) < n THEN Len(s) ELSE n)

\* Array.prototype.filter(job => job.id !== jobId)
withoutId(jobs, jobId) == SelectSeq(jobs, LAMBDA job : job.id # jobId)

\* the array getCachedJobs returns; where the item parses to null it returns null, and
\* its callers are modelled by parsesToNull
getCachedJobs(store) == IF store.kind = "json" THEN store.jobs ELSE <<>>

setCachedJobs(jobs) == JsonItem(jobs)

\* addToCache without the slice to MAX_CACHE_SIZE
addToCacheNoSlice(store, jobId, data, domain, timestamp) ==
    LET newJob == [id |-> jobId, data |-> data, timestamp |-> timestamp, domain |-> domain]
    IN  setCachedJobs(<<newJob>> \o withoutId(getCachedJobs(store), jobId))

\* addToCache without the removal of the existing entry
addToCacheNoFilter(store, jobId, data, domain, timestamp) ==
    LET newJob == [id |-> jobId, data |-> data, timestamp |-> timestamp, domain |-> domain]
    IN  setCachedJobs(slice0(<<newJob>> \o getCachedJobs(store), MAX_CACHE_SIZE))

\* addToCache that keeps the newest entries at the tail and slices from the front
addToCacheAppend(store, jobId, data, domain, timestamp) ==
    LET newJob == [id |-> jobId, data |-> data, timestamp |-> timestamp, domain |-> domain]
    IN  setCachedJobs(slice0(withoutId(getCachedJobs(store), jobId) \o <<newJob>>, MAX_CACHE_SIZE))

\* addToCache that overwrites an entry already cached in its place
addToCacheInPlace(store, jobId, data, domain, timestamp) ==
    LET cachedJobs == getCachedJobs(store)
        newJob == [id |-> jobId, data |-> data, timestamp |-> timestamp, domain |-> domain]
    IN  IF \E k \in 1..Len(cachedJobs) : cachedJobs[k].id = jobId
        THEN setCachedJobs([k \in 1..Len(cachedJobs) |->
                              IF cachedJobs[k].id = jobId THEN newJob ELSE cachedJobs[k]])
        ELSE setCachedJobs(slice0(<<newJob>> \o cachedJobs, MAX_CACHE_SIZE))

addToCache(store, jobId, data, domain, timestamp) ==
    LET cachedJobs == getCachedJobs(store)
        newJob == [id |-> jobId, data |-> data, timestamp |-> timestamp, domain |-> domain]
        filteredJobs == withoutId(cachedJobs, jobId)
        updatedJobs == slice0(<<newJob>> \o filteredJobs, MAX_CACHE_SIZE)
    IN  setCachedJobs(updatedJobs)

\* a lookup that compares the wrong field and so never finds an entry
getFromCacheWrongField(store, jobId) ==
    LET hits == SelectSeq(getCachedJobs(store), LAMBDA job : job.domain = jobId)
    IN  IF hits = <<>> THEN Null ELSE Some(Head(hits))

getFromCache(store, jobId) ==
    LET cachedJobs == getCachedJobs(store)
        hits == SelectSeq(cachedJobs, LAMBDA job : job.id = jobId)
    IN  IF hits = <<>> THEN Null ELSE Some(Head(hits))

clearCache == NoItem

\* a removal that drops the newest entry whatever its id
removeFromCacheHead(store, jobId) ==
    LET cachedJobs == getCachedJobs(store)
    IN  setCachedJobs(IF cachedJobs = <<>> THEN <<>> ELSE Tail(cachedJobs))

removeFromCache(store, jobId) ==
    LET cachedJobs == getCachedJobs(store)
        updatedJobs == withoutId(cachedJobs, jobId)
    IN  setCachedJobs(updatedJobs)

----------------------------------------------------------------------------
(* Domain of a result: new URL(url).hostname, extractDomain, getRepresentativeDomain *)

\* String.prototype.indexOf(sub): 0 when absent, else the 1-based position
indexOf(s, sub) ==
    LET at == {i \in 1..(Len(s) - Len(sub) + 1) : SubSeq(s, i, i + Len(sub) - 1) = sub}
    IN  IF at = {} THEN 0 ELSE CHOOSE i \in at : \A j \in at : i <= j

\* String.prototype.replace(sub, ""): the first occurrence only
removeFirst(s, sub) ==
    LET i == indexOf(s, sub)
    IN  IF i = 0 THEN s ELSE SubSeq(s, 1, i - 1) \o SubSeq(s, i + Len(sub), Len(s))

\* the position of the first character of s that is in stops, Len(s) + 1 when none
firstOf(s, stops) ==
    LET at == {i \in 1..Len(s) : s[i] \in stops}
    IN  IF at = {} THEN Len(s) + 1 ELSE CHOOSE i \in at : \A j \in at : i <= j

RECURSIVE dropWhile(_, _)
dropWhile(s, chars) == IF s # <<>> /\ Head(s) \in chars THEN dropWhile(Tail(s), chars) ELSE s

SchemeChars == Range(LowerLetters) \cup Range(UpperLetters) \cup Digits \cup {"+", "-", "."}
SpecialSchemes == {<<"h", "t", "t", "p">>, <<"h", "t", "t", "p", "s">>}
ForbiddenHostChars == {" ", "<", ">", "[", "]", "^", "|", "%"}

\* new URL(url).hostname without a base: [ok |-> FALSE] when the constructor throws
urlHostname(url) ==
    LET input == trim(url)
        colon == firstOf(input, {":"})
        scheme == toLowerCase(SubSeq(input, 1, colon - 1))
        rest == SubSeq(input, colon + 1, Len(input))
        afterSlashes == dropWhile(rest, {"/", "\\"})
        authority == SubSeq(afterSlashes, 1, firstOf(afterSlashes, {"/", "\\", "?", "#"}) - 1)
        at == firstOf(authority, {"@"})
        hostport == IF at > Len(authority) THEN authority
                    ELSE SubSeq(authority, at + 1, Len(authority))
        host == SubSeq(hostport, 1, firstOf(hostport, {":"}) - 1)
    IN  IF \/ colon > Len(input)
           \/ scheme = <<>>
           \/ Head(scheme) \notin Range(LowerLetters)
           \/ \E i \in 1..Len(scheme) : scheme[i] \notin SchemeChars
        THEN [ok |-> FALSE, hostname |-> <<>>]
        ELSE IF scheme \notin SpecialSchemes
        THEN [ok |-> TRUE, hostname |-> <<>>]
        ELSE IF host = <<>> \/ \E i \in 1..Len(host) : host[i] \in ForbiddenHostChars
        THEN [ok |-> FALSE, hostname |-> <<>>]
        ELSE [ok |-> TRUE, hostname |-> toLowerCase(host)]

UNKNOWN == <<"U", "N", "K", "N", "O", "W", "N">>

extractDomain(url) ==
    LET parsed == urlHostname(url)
        domainParts == split(removeFirst(parsed.hostname, <<"w", "w", "w", ".">>), ".")
    IN  IF parsed.ok THEN toUpperCase(domainParts[1]) ELSE UNKNOWN

\* the domain an entry of the job list is searched by
extractDomainForSearch(url) ==
    LET parsed == urlHostname(url)
    IN  IF parsed.ok THEN removeFirst(parsed.hostname, <<"w", "w", "w", ".">>) ELSE url

\* example.url || example.__url || null
getExampleUrl(example) ==
    IF example.url # <<>> THEN Some(example.url)
    ELSE IF example.uurl # <<>> THEN Some(example.uurl)
    ELSE Null

\* the URL the loop over one category returns on, Null when it falls through
categoryUrl(category) ==
    IF category.key = "unique_sizes"
    THEN LET found == SelectSeq(category.values, LAMBDA value : value.sample_url # <<>>)
         IN  IF found = <<>> THEN Null ELSE Some(Head(found).sample_url)
    ELSE LET found == SelectSeq(category.examples, LAMBDA example : getExampleUrl(example) # Null)
         IN  IF found = <<>> THEN Null ELSE getExampleUrl(Head(found))

\* a search that stops after the first category
getRepresentativeDomainFirstCategory(entries) ==
    IF entries = <<>> \/ categoryUrl(Head(entries)) = Null THEN UNKNOWN
    ELSE extractDomain(categoryUrl(Head(entries))[1])

\* entries: the entries of the ValidationResult object, in Object.entries order
getRepresentativeDomain(entries) ==
    LET found == SelectSeq(entries, LAMBDA category : categoryUrl(category) # Null)
    IN  IF found = <<>> THEN UNKNOWN ELSE extractDomain(categoryUrl(Head(found))[1])

\* data.result ? getRepresentativeDomain(data.result) : 'UNKNOWN'
domainOfResponse(data) ==
    IF data.result # Null THEN getRepresentativeDomain(data.result[1]) ELSE UNKNOWN

----------------------------------------------------------------------------
(* Responses of the validation API *)

ShopUrl == <<"h", "t", "t", "p", "s", ":", "/", "/", "w", "w", "w", ".", "s", "h", "o", "p", ".", "c", "o", "m", "/", "p">>
FooUrl == <<"h", "t", "t", "p", ":", "/", "/", "F", "o", "o", ".", "o", "r", "g", "/", "x">>
BadUrl == <<"n", "o", "t", " ", "a", " ", "u", "r", "l">>

Example(url, uurl) == [url |-> url, uurl |-> uurl]
Category(key, total, examples) == [key |-> key, total |-> total, examples |-> examples, values |-> <<>>]
UniqueSizes(total, values) == [key |-> "unique_sizes", total |-> total, examples |-> <<>>, values |-> values]
ApiResponse(status, entries) == [status |-> status, result |-> entries]

\* the first category's only example has no URL, the second example of the next one has
\* it under url
ShopResponse ==
    ApiResponse("success",
        Some(<<Category("missing_color", 1, <<Example(<<>>, <<>>)>>),
               Category("missing_price", 2, <<Example(<<>>, <<>>), Example(ShopUrl, <<>>)>>)>>))

\* the only URL is the sample_url of a unique_sizes value
SizesResponse ==
    ApiResponse("success",
        Some(<<Category("missing_price", 0, <<>>),
               UniqueSizes(1, <<[sample_url |-> FooUrl]>>)>>))

\* the first URL found is under __url and does not parse, a later one does
BadFirstResponse ==
    ApiResponse("success",
        Some(<<Category("missing_gender", 2, <<Example(<<>>, BadUrl), Example(ShopUrl, <<>>)>>)>>))

\* no issue, no example
CleanResponse == ApiResponse("success", Some(<<Category("missing_price", 0, <<>>)>>))

\* no result member
NoResultResponse == ApiResponse("failed", Null)

Responses ==
    { ShopResponse, SizesResponse, BadFirstResponse, CleanResponse, NoResultResponse }

----------------------------------------------------------------------------
(* Bounds and input sets of the page *)

MaxInflight == 2
MaxTime == 1

\* the job ids of the history runs: one more than the history keeps
MaxHistoryIds == 21

\* a history that keeps every job of the runs
HistoryLimitOff == MaxHistoryIds

MAX_HISTORY == 20
HistoryIdChars ==
    <<"0", "1", "2", "3", "4", "5", "6", "7", "8", "9", "a", "b", "c", "d", "e", "f",
      "A", "B", "C", "D", "E", "F">>
H(k) == DigitUuid(HistoryIdChars[k])
HistoryIds == {H(k) : k \in 1..MaxHistoryIds}

UrlPrefix == <<"h", "t", "t", "p", "s", ":", "/", "/", "x", ".", "a", "i", "/", "j", "/">>

\* what the user types, clicks or has in the page URL
PageInputs ==
    { SampleUuid,
      UrlPrefix \o DigitUuid("7"),
      NotAUuid,
      <<" ">> }

\* /reworkd_ids.json
JobEntries == { [id |-> SampleUuid, site |-> ShopUrl] }

\* NEXT_PUBLIC_ALLOWED_GROUPS
allowedGroups == { <<"q", "a">> }
GroupInputs == { <<" ", "Q", "a", " ">>, <<"x">> }

Endpoints == { "https://validator.example/validate/" }

\* process.env.NEXT_PUBLIC_DEFAULT_API_ENDPOINT: not set, so that the endpoint is
\* configured only once the settings page has saved one
defaultEndpoint == Null

\* what the proxy answers when it does not answer 2xx
ErrorResponses ==
    { [status |-> 404, error |-> "External API error: 404 Not Found"],
      [status |-> 502, error |-> ""] }

HttpErrorMessage(status) ==
    CASE status = 404 -> "HTTP error! status: 404"
      [] status = 502 -> "HTTP error! status: 502"

NotConfiguredMessage ==
    "API endpoint not configured. Please set NEXT_PUBLIC_DEFAULT_API_ENDPOINT environment variable."
FailedToFetchMessage == "Failed to fetch"

----------------------------------------------------------------------------
(* The dashboard page *)

\* storedJobIds: JSON.parse(localStorage.getItem('validatedJobIds') || '[]')
storedJobIds(store) == IF store.kind = "json" THEN store.jobs ELSE <<>>

\* localStorage.getItem('apiEndpoint') || process.env.NEXT_PUBLIC_DEFAULT_API_ENDPOINT
apiEndpointOf(stored, default) == IF stored # Null THEN stored ELSE default

\* a gate that opens for every group
authenticateAnyGroup(groupInput) ==
    /\ ~isAuthenticated
    /\ isAuthenticated' = TRUE
    /\ UNCHANGED <<resolverVars, otherVars, storageVars, loading, result, error, currentJobId,
                   isFromCache, cacheTimestamp, inflight, now>>

authenticate(groupInput) ==
    /\ ~isAuthenticated
    /\ LET inputGroup == toLowerCase(trim(groupInput))
       IN  isAuthenticated' = (inputGroup \in allowedGroups)
    /\ UNCHANGED <<resolverVars, otherVars, storageVars, loading, result, error, currentJobId,
                   isFromCache, cacheTimestamp, inflight, now>>

logout ==
    /\ isAuthenticated
    /\ isAuthenticated' = FALSE
    /\ result' = Null
    /\ isFromCache' = FALSE
    /\ cacheTimestamp' = Null
    /\ UNCHANGED <<resolverVars, otherVars, storageVars, loading, error, currentJobId, inflight, now>>

\* every string validateJob is called with
KnownInputs ==
    PageInputs \cup {jobEntry.id : jobEntry \in JobEntries}
        \cup {extractJobId(input).value : input \in PageInputs}

\* extractJobId on each of them and the domain of each response, computed once
extractJobIdOf == [input \in KnownInputs \cup HistoryIds |-> extractJobId(input)]
domainOf == [data \in Responses |-> domainOfResponse(data)]

\* a cache hit that re-inserts the entry it found, moving it to the front
serveFromCacheTouching(jobId, cachedJob) ==
    /\ currentJobId' = jobId
    /\ result' = Some(cachedJob.data)
    /\ isFromCache' = TRUE
    /\ cacheTimestamp' = Some(cachedJob.timestamp)
    /\ error' = Null
    /\ loading' = FALSE
    /\ cacheStore' = addToCache(cacheStore, jobId, cachedJob.data, cachedJob.domain, now)
    /\ UNCHANGED <<historyStore, storedEndpoint, inflight>>

\* validateJob where getFromCache found cachedJob: the payload is displayed, nothing is
\* written or fetched
serveFromCache(jobId, cachedJob) ==
    /\ currentJobId' = jobId
    /\ result' = Some(cachedJob.data)
    /\ isFromCache' = TRUE
    /\ cacheTimestamp' = Some(cachedJob.timestamp)
    /\ error' = Null
    /\ loading' = FALSE
    /\ UNCHANGED <<storageVars, inflight>>

\* validateJob up to its return or its await of fetch
validateJob(inputValue, forceRefresh) ==
    IF trim(inputValue) = <<>> \/ ~isAuthenticated
    THEN UNCHANGED vars
    ELSE
      LET extracted == extractJobIdOf[inputValue]
          jobId == extracted.value
          cachedJob == IF forceRefresh THEN Null ELSE getFromCache(cacheStore, jobId)
          apiEndpoint == apiEndpointOf(storedEndpoint, defaultEndpoint)
      IN
      /\ UNCHANGED <<resolverVars, otherVars, isAuthenticated, now>>
      /\ IF ~extracted.ok
         THEN /\ error' = Some(extracted.message)
              /\ loading' = FALSE
              /\ result' = Null
              /\ isFromCache' = FALSE
              /\ cacheTimestamp' = Null
              /\ UNCHANGED <<storageVars, currentJobId, inflight>>
         ELSE IF ~forceRefresh /\ parsesToNull(cacheStore)
         THEN /\ currentJobId' = jobId
              /\ error' = Some(TypeErrorMessage)
              /\ loading' = FALSE
              /\ result' = Null
              /\ isFromCache' = FALSE
              /\ cacheTimestamp' = Null
              /\ UNCHANGED <<storageVars, inflight>>
         ELSE IF cachedJob # Null
         THEN serveFromCache(jobId, cachedJob[1])
         ELSE IF apiEndpoint = Null
         THEN /\ currentJobId' = jobId
              /\ error' = Some(NotConfiguredMessage)
              /\ loading' = FALSE
              /\ result' = Null
              /\ isFromCache' = FALSE
              /\ cacheTimestamp' = Null
              /\ UNCHANGED <<storageVars, inflight>>
         ELSE /\ Len(inflight) < MaxInflight
              /\ currentJobId' = jobId
              /\ inflight' = Append(inflight, [jobId |-> jobId, endpoint |-> apiEndpoint[1]])
              /\ loading' = TRUE
              /\ error' = Null
              /\ result' = Null
              /\ isFromCache' = FALSE
              /\ cacheTimestamp' = Null
              /\ UNCHANGED storageVars

\* the Validate button of the form, rendered when authenticated, disabled while loading
handleSubmit ==
    \E input \in PageInputs :
        /\ isAuthenticated
        /\ ~loading
        /\ trim(input) # <<>>
        /\ validateJob(input, FALSE)

\* a click on an entry of the search dropdown
handleSearchResultClick ==
    \E jobEntry \in JobEntries :
        /\ isAuthenticated
        /\ validateJob(jobEntry.id, FALSE)

\* the effect on searchParams: an id in the page URL
autoValidate ==
    \E jobIdFromUrl \in PageInputs :
        /\ ~loading
        /\ result = Null
        /\ validateJob(jobIdFromUrl, FALSE)

\* the Refresh button, rendered when isFromCache && result, disabled while loading
refreshJob ==
    /\ isAuthenticated
    /\ isFromCache
    /\ result # Null
    /\ ~loading
    /\ IF currentJobId # <<>> THEN validateJob(currentJobId, TRUE) ELSE UNCHANGED vars

removeAt(s, i) == SubSeq(s, 1, i - 1) \o SubSeq(s, i + 1, Len(s))

\* a completion that is dropped when a later validate has made another job current
fetchOkLatestOnly(i, data) ==
    LET jobId == inflight[i].jobId
        domain == domainOf[data]
        jobEntry == [id |-> jobId, timestamp |-> now, domain |-> domain]
        updatedJobIds ==
            slice0(<<jobEntry>> \o withoutId(storedJobIds(historyStore), jobId), MAX_HISTORY)
        cacheThrows == parsesToNull(cacheStore)
        historyThrows == parseThrows(historyStore) \/ parsesToNull(historyStore)
    IN  IF jobId # currentJobId
        THEN /\ inflight' = removeAt(inflight, i)
             /\ UNCHANGED <<resolverVars, otherVars, storageVars, isAuthenticated, loading,
                            result, error, currentJobId, isFromCache, cacheTimestamp, now>>
        ELSE
        /\ inflight' = removeAt(inflight, i)
        /\ result' = Some(data)
        /\ cacheStore' = IF cacheThrows THEN cacheStore
                         ELSE addToCache(cacheStore, jobId, data, domain, now)
        /\ historyStore' = IF cacheThrows \/ historyThrows THEN historyStore
                           ELSE JsonItem(updatedJobIds)
        /\ error' = IF cacheThrows THEN Some(TypeErrorMessage)
                    ELSE IF parseThrows(historyStore) THEN Some(SyntaxErrorMessage)
                    ELSE IF parsesToNull(historyStore) THEN Some(TypeErrorMessage)
                    ELSE error
        /\ loading' = FALSE
        /\ UNCHANGED <<resolverVars, otherVars, storedEndpoint, isAuthenticated,
                       currentJobId, isFromCache, cacheTimestamp, now>>

\* validateJob after its await: the response is 2xx and its body is data
fetchOk(i, data) ==
    LET jobId == inflight[i].jobId
        domain == domainOf[data]
        jobEntry == [id |-> jobId, timestamp |-> now, domain |-> domain]
        updatedJobIds ==
            slice0(<<jobEntry>> \o withoutId(storedJobIds(historyStore), jobId), MAX_HISTORY)
        cacheThrows == parsesToNull(cacheStore)
        historyThrows == parseThrows(historyStore) \/ parsesToNull(historyStore)
    IN  /\ inflight' = removeAt(inflight, i)
        /\ result' = Some(data)
        /\ cacheStore' = IF cacheThrows THEN cacheStore
                         ELSE addToCache(cacheStore, jobId, data, domain, now)
        /\ historyStore' = IF cacheThrows \/ historyThrows THEN historyStore
                           ELSE JsonItem(updatedJobIds)
        /\ error' = IF cacheThrows THEN Some(TypeErrorMessage)
                    ELSE IF parseThrows(historyStore) THEN Some(SyntaxErrorMessage)
                    ELSE IF parsesToNull(historyStore) THEN Some(TypeErrorMessage)
                    ELSE error
        /\ loading' = FALSE
        /\ UNCHANGED <<resolverVars, otherVars, storedEndpoint, isAuthenticated,
                       currentJobId, isFromCache, cacheTimestamp, now>>

\* a failure handler that issues the same fetch again instead of reporting
fetchNotOkRetries(i, errorData) ==
    /\ inflight' = Append(removeAt(inflight, i), inflight[i])
    /\ error' = Some(FailedToFetchMessage)
    /\ UNCHANGED <<resolverVars, otherVars, storageVars, isAuthenticated, loading, result,
                   currentJobId, isFromCache, cacheTimestamp, now>>

\* validateJob after its await: the response is not 2xx
fetchNotOk(i, errorData) ==
    /\ inflight' = removeAt(inflight, i)
    /\ error' = Some(IF errorData.error # "" THEN errorData.error
                     ELSE HttpErrorMessage(errorData.status))
    /\ loading' = FALSE
    /\ UNCHANGED <<resolverVars, otherVars, storageVars, isAuthenticated, result, currentJobId,
                   isFromCache, cacheTimestamp, now>>

\* a failure handler that drops the cache entry of the job whose fetch failed
fetchThrowsEvicts(i) ==
    /\ inflight' = removeAt(inflight, i)
    /\ error' = Some(FailedToFetchMessage)
    /\ loading' = FALSE
    /\ cacheStore' = removeFromCache(cacheStore, inflight[i].jobId)
    /\ UNCHANGED <<resolverVars, otherVars, historyStore, storedEndpoint, isAuthenticated,
                   result, currentJobId, isFromCache, cacheTimestamp, now>>

\* validateJob after its await: fetch rejects
fetchThrows(i) ==
    /\ inflight' = removeAt(inflight, i)
    /\ error' = Some(FailedToFetchMessage)
    /\ loading' = FALSE
    /\ UNCHANGED <<resolverVars, otherVars, storageVars, isAuthenticated, result, currentJobId,
                   isFromCache, cacheTimestamp, now>>

fetchCompletes ==
    \E i \in 1..Len(inflight) :
        \/ \E data \in Responses : fetchOk(i, data)
        \/ \E errorData \in ErrorResponses : fetchNotOk(i, errorData)
        \/ fetchThrows(i)

----------------------------------------------------------------------------
(* The browse and settings pages, as far as they write what the dashboard reads *)

removeCachedJob ==
    \E job \in Range(getCachedJobs(cacheStore)) :
        /\ cacheStore' = removeFromCache(cacheStore, job.id)
        /\ UNCHANGED <<resolverVars, otherVars, historyStore, storedEndpoint, pageVars, now>>

clearAllCache ==
    /\ cacheStore' = clearCache
    /\ UNCHANGED <<resolverVars, otherVars, historyStore, storedEndpoint, pageVars, now>>

saveSettings ==
    \E endpoint \in Endpoints :
        /\ storedEndpoint' = Some(endpoint)
        /\ UNCHANGED <<resolverVars, otherVars, cacheStore, historyStore, pageVars, now>>

\* the browse page is opened: its effect reads the history and the cache, then it renders
browseMount ==
    /\ browseView = "closed"
    /\ browseView' = IF parseThrows(historyStore) \/ parsesToNull(historyStore)
                         \/ parsesToNull(cacheStore)
                     THEN "error" ELSE "shown"
    /\ jobHistory' = IF parseThrows(historyStore) THEN <<>> ELSE storedJobIds(historyStore)
    /\ UNCHANGED <<resolverVars, domains, searchVars, proxyVars, storageVars, pageVars, now>>

\* the browse page is left by a link of the navigation bar
browseLeave ==
    /\ browseView # "closed"
    /\ browseView' = "closed"
    /\ jobHistory' = <<>>
    /\ UNCHANGED <<resolverVars, domains, searchVars, proxyVars, storageVars, pageVars, now>>

\* time passes between two reads of new Date()
tick ==
    /\ now < MaxTime
    /\ now' = now + 1
    /\ UNCHANGED <<resolverVars, otherVars, storageVars, pageVars>>

----------------------------------------------------------------------------
(* Specifications *)

InitPage ==
    /\ isAuthenticated = FALSE
    /\ loading = FALSE
    /\ result = Null
    /\ error = Null
    /\ currentJobId = <<>>
    /\ isFromCache = FALSE
    /\ cacheTimestamp = Null
    /\ inflight = <<>>

InitStorage ==
    /\ cacheStore = NoItem
    /\ historyStore = NoItem
    /\ storedEndpoint = Null

\* the browse page closed, no domain extracted, the search box empty, the route idle
InitOther ==
    /\ browseView = "closed"
    /\ jobHistory = <<>>
    /\ domains = Null
    /\ jobEntries = <<>>
    /\ inputBox = <<>>
    /\ searchResults = <<>>
    /\ showSearchResults = FALSE
    /\ request = Null
    /\ upstream = <<>>
    /\ response = Null

\* the dashboard, the browse page and the settings page over one empty localStorage
Init ==
    /\ arg = <<>>
    /\ ret = Pending
    /\ InitStorage
    /\ InitPage
    /\ InitOther
    /\ now = 0

Next ==
    \/ \E groupInput \in GroupInputs : authenticate(groupInput)
    \/ logout
    \/ handleSubmit
    \/ handleSearchResultClick
    \/ autoValidate
    \/ refreshJob
    \/ fetchCompletes
    \/ removeCachedJob
    \/ clearAllCache
    \/ saveSettings

\* now is read for the timestamps the page writes and is never compared by the page, so
\* the page is checked at one reading of the clock; SpecCache lets the clock advance
Spec == Init /\ [][Next]_vars

----------------------------------------------------------------------------
(* extractJobId alone: every input of ResolverInputs, one call *)

resolve ==
    /\ ret = Pending
    /\ ret' = extractJobId(arg)
    /\ UNCHANGED <<arg, otherVars, storageVars, pageVars, now>>

InitResolve ==
    /\ arg \in ResolverInputs
    /\ ret = Pending
    /\ InitStorage
    /\ InitPage
    /\ InitOther
    /\ now = 0

NextResolve == resolve

SpecResolve == InitResolve /\ [][NextResolve]_vars

----------------------------------------------------------------------------
(* The cache functions alone: any sequence of insert, remove and clear *)

IdChars == <<"1", "2", "3", "4", "5", "6">>
CacheIds == {DigitUuid(IdChars[i]) : i \in DOMAIN IdChars}

CacheResponses == {SizesResponse}

insert(jobId, data) ==
    /\ cacheStore' = addToCache(cacheStore, jobId, data, domainOf[data], now)
    /\ UNCHANGED <<resolverVars, otherVars, historyStore, storedEndpoint, pageVars, now>>

remove(jobId) ==
    /\ cacheStore' = removeFromCache(cacheStore, jobId)
    /\ UNCHANGED <<resolverVars, otherVars, historyStore, storedEndpoint, pageVars, now>>

clear ==
    /\ cacheStore' = clearCache
    /\ UNCHANGED <<resolverVars, otherVars, historyStore, storedEndpoint, pageVars, now>>

NextCache ==
    \/ \E jobId \in CacheIds, data \in CacheResponses : insert(jobId, data)
    \/ \E jobId \in CacheIds : remove(jobId)
    \/ clear
    \/ tick

SpecCache == Init /\ [][NextCache]_vars

----------------------------------------------------------------------------
(* extractDomain and extractDomainForSearch alone: every input of DomainInputs, one call *)

DomainSchemes == { <<>>, <<"h", "t", "t", "p", "s", ":", "/", "/">>, <<"h", "t", "t", "p", ":", "/", "/">> }
DomainWww == { <<>>, <<"w", "w", "w", ".">>, <<"W", "W", "W", ".">> }
DomainHosts == { <<"s", "h", "o", "p", ".", "e", "x", "a", "m", "p", "l", "e", ".", "c", "o", "m">>, <<"S", "h", "o", "p", ".", "e", "x", "a", "m", "p", "l", "e", ".", "c", "o", "m">>, <<"a", "w", "w", "w", ".", "x", ".", "c", "o", "m">>, <<"f", "o", "o", ".", "o", "r", "g">> }
DomainPaths == { <<>>, <<"/", "p">> }

\* "mailto:a@b.c" parses and has the empty hostname
MailtoUrl == <<"m", "a", "i", "l", "t", "o", ":", "a", "@", "b", ".", "c">>

DomainInputs ==
    { c \o w \o h \o q : c \in DomainSchemes, w \in DomainWww, h \in DomainHosts, q \in DomainPaths }
        \cup {BadUrl, MailtoUrl, <<>>}

extractDomains ==
    /\ domains = Null
    /\ domains' = Some([tag |-> extractDomain(arg), search |-> extractDomainForSearch(arg)])
    /\ UNCHANGED <<resolverVars, browseVars, searchVars, proxyVars, storageVars, pageVars, now>>

InitDomain ==
    /\ arg \in DomainInputs
    /\ ret = Pending
    /\ InitStorage
    /\ InitPage
    /\ InitOther
    /\ now = 0

NextDomain == extractDomains

SpecDomain == InitDomain /\ [][NextDomain]_vars

----------------------------------------------------------------------------
(* The search box of the dashboard: the job list is loaded, then the user types *)

\* String.prototype.includes(sub)
includes(s, sub) == sub = <<>> \/ indexOf(s, sub) # 0

\* the slice(0, 10) of the search results
SearchLimit == 10

MaxEntries == 12

InnerWwwUrl == <<"h", "t", "t", "p", "s", ":", "/", "/", "a", "w", "w", "w", ".", "x", ".", "c", "o", "m">>

\* the sites of a job list, repeated in turn down the list
SitePatterns ==
    { <<ShopUrl>>, <<ShopUrl, FooUrl>>, <<BadUrl, ShopUrl>>, <<InnerWwwUrl, ShopUrl, FooUrl>> }

EntryIdChars == <<"0", "1", "2", "3", "4", "5", "6", "7", "8", "9", "a", "b", "c", "d", "e", "f">>

entryList(n, sites) ==
    [k \in 1..n |-> [id |-> DigitUuid(EntryIdChars[k]), site |-> sites[((k - 1) % Len(sites)) + 1]]]

EntryLists == {entryList(n, sites) : n \in {1, 2, MaxEntries - 1, MaxEntries}, sites \in SitePatterns}

SearchValues ==
    { <<>>, <<"@">>, <<"s", "h", "o", "p">>, <<"@", "s", "h", "o", "p">>, <<"@", "S", "H", "O", "P">>, <<"@", "o">>, <<"@", "u", "r", "l">>, <<"@", "a", "x">>, <<"@", "w", "w", "w">>, <<"@", ".", "o", "r", "g">>, <<"@", " ", "s", "h", "o", "p">> }

\* the effect that fetches /reworkd_ids.json when the page mounts
loadJobEntries ==
    \E data \in EntryLists :
        /\ jobEntries = <<>>
        /\ jobEntries' = data
        /\ UNCHANGED <<resolverVars, browseVars, domains, inputBox, searchResults,
                       showSearchResults, proxyVars, storageVars, pageVars, now>>

\* onChange of the input box, rendered when authenticated, disabled while loading
handleInputChange(value) ==
    LET searchTerm == toLowerCase(Tail(value))
        results ==
            slice0(SelectSeq(jobEntries,
                             LAMBDA entry :
                                 includes(toLowerCase(extractDomainForSearch(entry.site)),
                                          searchTerm)),
                   SearchLimit)
    IN  /\ isAuthenticated
        /\ ~loading
        /\ inputBox' = value
        /\ IF value # <<>> /\ Head(value) = "@"
           THEN IF Len(searchTerm) > 0
                THEN searchResults' = results /\ showSearchResults' = TRUE
                ELSE searchResults' = <<>> /\ showSearchResults' = FALSE
           ELSE searchResults' = <<>> /\ showSearchResults' = FALSE
        /\ UNCHANGED <<resolverVars, browseVars, domains, jobEntries, proxyVars,
                       storageVars, pageVars, now>>

NextSearch ==
    \/ \E groupInput \in GroupInputs : authenticate(groupInput)
    \/ loadJobEntries
    \/ \E value \in SearchValues : handleInputChange(value)

SpecSearch == Init /\ [][NextSearch]_vars

----------------------------------------------------------------------------
(* The proxy route GET /api/validate/[jobId] *)

\* 'https://yaysay-validator.onrender.com/validate/'
DefaultProxyEndpoint ==
    <<"h", "t", "t", "p", "s", ":", "/", "/", "y", "a", "y", "s", "a", "y", "-", "v", "a", "l", "i", "d", "a", "t", "o", "r", ".", "o", "n", "r", "e", "n", "d", "e", "r", ".", "c", "o", "m", "/", "v", "a", "l", "i", "d", "a", "t", "e", "/">>

ProxyEndpoints == { <<"h", "t", "t", "p", "s", ":", "/", "/", "e", ".", "x", "/", "v", "/">>, <<"h", "t", "t", "p", ":", "/", "/", "h", "/", "v", "?", "i", "d", "=">> }

ProxyJobIds ==
    { SampleUuid, UpperUuid, MixedUuid, DigitUuid("7"),
      NotAUuid,
      <<"g">> \o Tail(SampleUuid),
      Tail(SampleUuid),
      SampleUuid \o <<"0">>,
      <<" ">> \o SampleUuid }

\* searchParams.get('endpoint'): null, the empty string, or the decoded endpoint
ProxyRequests ==
    [jobId : ProxyJobIds, endpoint : {Null, Some(<<>>)} \cup {Some(e) : e \in ProxyEndpoints}]

\* what the external API answers: parsed is what response.json() gives, Null when it throws
UpstreamReplies ==
    { [status |-> 200, statusText |-> "OK",
       body |-> "{ \"status\": \"ok\" }", parsed |-> Some("{\"status\":\"ok\"}")],
      [status |-> 200, statusText |-> "OK", body |-> "<html>", parsed |-> Null],
      [status |-> 404, statusText |-> "Not Found",
       body |-> "{\"detail\":\"Job not found\"}", parsed |-> Some("{\"detail\":\"Job not found\"}")],
      [status |-> 502, statusText |-> "Bad Gateway",
       body |-> "<html>Bad Gateway</html>", parsed |-> Null],
      [status |-> 500, statusText |-> "Internal Server Error", body |-> "", parsed |-> Null] }

\* Response.ok
responseOk(reply) == reply.status >= 200 /\ reply.status <= 299

\* JSON.stringify({ error: message })
JsonError(message) == "{\"error\":\"" \o message \o "\"}"

\* NextResponse.json(body, { status })
jsonResponse(body, status) == Some([status |-> status, body |-> body])

InvalidJobIdResponse == jsonResponse(JsonError("Invalid job ID format"), 400)
InternalErrorResponse == jsonResponse(JsonError("Internal server error"), 500)

ExternalApiError(reply) ==
    "External API error: " \o ToString(reply.status) \o " " \o reply.statusText

\* a route that forwards the jobId without testing it
GETUnchecked(req) ==
    LET jobId == req.jobId
        apiEndpoint == IF req.endpoint # Null /\ req.endpoint[1] # <<>>
                       THEN req.endpoint[1] ELSE DefaultProxyEndpoint
    IN  /\ request = Null
        /\ request' = Some(req)
        /\ upstream' = Append(upstream, [method |-> "GET", url |-> apiEndpoint \o jobId,
                                         reply |-> Null])
        /\ UNCHANGED response
        /\ UNCHANGED <<resolverVars, browseVars, domains, searchVars, storageVars, pageVars, now>>

\* GET up to its return or its await of fetch
GET(req) ==
    LET jobId == req.jobId
        apiEndpoint == IF req.endpoint # Null /\ req.endpoint[1] # <<>>
                       THEN req.endpoint[1] ELSE DefaultProxyEndpoint
    IN  /\ request = Null
        /\ request' = Some(req)
        /\ IF ~uuidRegexTest(jobId)
           THEN /\ response' = InvalidJobIdResponse
                /\ UNCHANGED upstream
           ELSE /\ upstream' = Append(upstream, [method |-> "GET", url |-> apiEndpoint \o jobId,
                                                 reply |-> Null])
                /\ UNCHANGED response
        /\ UNCHANGED <<resolverVars, browseVars, domains, searchVars, storageVars, pageVars, now>>

awaitingUpstream ==
    /\ request # Null
    /\ response = Null
    /\ Len(upstream) = 1
    /\ upstream[1].reply = Null

\* a route that hands the upstream body on as it came
upstreamNotOkVerbatim(reply) ==
    /\ awaitingUpstream
    /\ ~responseOk(reply)
    /\ upstream' = <<[upstream[1] EXCEPT !.reply = Some(reply)]>>
    /\ response' = jsonResponse(reply.body, reply.status)
    /\ UNCHANGED <<resolverVars, browseVars, domains, searchVars, request, storageVars,
                   pageVars, now>>

\* GET after its await: the external API answered, not 2xx
upstreamNotOk(reply) ==
    /\ awaitingUpstream
    /\ ~responseOk(reply)
    /\ upstream' = <<[upstream[1] EXCEPT !.reply = Some(reply)]>>
    /\ response' = jsonResponse(JsonError(ExternalApiError(reply)), reply.status)
    /\ UNCHANGED <<resolverVars, browseVars, domains, searchVars, request, storageVars,
                   pageVars, now>>

\* GET after its await: the external API answered 2xx; response.json() may throw
upstreamOk(reply) ==
    /\ awaitingUpstream
    /\ responseOk(reply)
    /\ upstream' = <<[upstream[1] EXCEPT !.reply = Some(reply)]>>
    /\ response' = IF reply.parsed = Null THEN InternalErrorResponse
                   ELSE jsonResponse(reply.parsed[1], 200)
    /\ UNCHANGED <<resolverVars, browseVars, domains, searchVars, request, storageVars,
                   pageVars, now>>

\* a route without its catch: the framework answers the escaped exception itself
upstreamThrowsEscapes ==
    /\ awaitingUpstream
    /\ response' = Some([status |-> 500, body |-> "<html>Internal Server Error</html>"])
    /\ UNCHANGED <<resolverVars, browseVars, domains, searchVars, request, upstream,
                   storageVars, pageVars, now>>

\* GET after its await: fetch rejected
upstreamThrows ==
    /\ awaitingUpstream
    /\ response' = InternalErrorResponse
    /\ UNCHANGED <<resolverVars, browseVars, domains, searchVars, request, upstream,
                   storageVars, pageVars, now>>

NextProxy ==
    \/ \E req \in ProxyRequests : GET(req)
    \/ \E reply \in UpstreamReplies : upstreamNotOk(reply)
    \/ \E reply \in UpstreamReplies : upstreamOk(reply)
    \/ upstreamThrows

SpecProxy == Init /\ [][NextProxy]_vars

----------------------------------------------------------------------------
(* The dashboard and the browse page over a localStorage whose items are corrupt *)

CorruptItems == {UnparseableItem, NullItem}

InitCorrupt ==
    /\ arg = <<>>
    /\ ret = Pending
    /\ cacheStore \in {NoItem} \cup CorruptItems
    /\ historyStore \in {NoItem} \cup CorruptItems
    /\ storedEndpoint = Null
    /\ InitPage
    /\ InitOther
    /\ now = 0

NextCorrupt ==
    \/ \E groupInput \in GroupInputs : authenticate(groupInput)
    \/ handleSubmit
    \/ fetchCompletes
    \/ saveSettings
    \/ browseMount
    \/ browseLeave

SpecCorrupt == InitCorrupt /\ [][NextCorrupt]_vars

----------------------------------------------------------------------------
(* The history over many jobs: an authenticated dashboard with an endpoint saved *)

historyIndex(jobId) == CHOOSE k \in 1..MaxHistoryIds : H(k) = jobId

\* the history is a run of consecutive jobs, the newest first
historyIsRun ==
    LET jobs == storedJobIds(historyStore)
    IN  \A k \in 1..(Len(jobs) - 1) : historyIndex(jobs[k].id) = historyIndex(jobs[k + 1].id) + 1

\* the jobs validated next: the first job that is not in the history, and, while the
\* history is a run, its oldest job and its sixth
historyInputs ==
    LET jobs == storedJobIds(historyStore)
        seen == {historyIndex(jobs[k].id) : k \in 1..Len(jobs)}
        unseen == (1..MaxHistoryIds) \ seen
    IN  (IF unseen = {} THEN {} ELSE {H(CHOOSE n \in unseen : \A m \in unseen : n <= m)})
            \cup (IF historyIsRun /\ Len(jobs) >= 6 THEN {jobs[6].id, jobs[Len(jobs)].id} ELSE {})

submitHistoryJob ==
    \E input \in historyInputs :
        /\ isAuthenticated
        /\ ~loading
        /\ validateJob(input, FALSE)

historyFetchOk == \E i \in 1..Len(inflight) : fetchOk(i, SizesResponse)

InitHistory ==
    /\ arg = <<>>
    /\ ret = Pending
    /\ cacheStore = NoItem
    /\ historyStore = NoItem
    /\ storedEndpoint \in {Some(endpoint) : endpoint \in Endpoints}
    /\ isAuthenticated = TRUE
    /\ loading = FALSE
    /\ result = Null
    /\ error = Null
    /\ currentJobId = <<>>
    /\ isFromCache = FALSE
    /\ cacheTimestamp = Null
    /\ inflight = <<>>
    /\ InitOther
    /\ now = 0

NextHistory ==
    \/ submitHistoryJob
    \/ historyFetchOk

SpecHistory == InitHistory /\ [][NextHistory]_vars

----------------------------------------------------------------------------
(* The browse page next to the dashboard, over one localStorage: an authenticated
   dashboard with an endpoint saved validates a few jobs while the browse page is
   opened, used and left *)

\* the jobs validated in these runs
MaxBrowseIds == 2
BrowseIds == {H(k) : k \in 1..MaxBrowseIds}

\* a removal from the history that leaves the cache alone
removeJobHistoryOnly(jobId) ==
    LET updatedHistory == withoutId(jobHistory, jobId)
    IN  /\ browseView = "shown"
        /\ \E k \in 1..Len(jobHistory) : jobHistory[k].id = jobId
        /\ historyStore' = JsonItem(updatedHistory)
        /\ jobHistory' = updatedHistory
        /\ UNCHANGED <<resolverVars, browseView, domains, searchVars, proxyVars, cacheStore,
                       storedEndpoint, pageVars, now>>

\* the trash button of a listed job: the page's jobHistory without the job is written
\* as the history, and the job is removed from the cache read from storage
removeJob(jobId) ==
    LET updatedHistory == withoutId(jobHistory, jobId)
    IN  /\ browseView = "shown"
        /\ \E k \in 1..Len(jobHistory) : jobHistory[k].id = jobId
        /\ historyStore' = JsonItem(updatedHistory)
        /\ jobHistory' = updatedHistory
        /\ cacheStore' = removeFromCache(cacheStore, jobId)
        /\ UNCHANGED <<resolverVars, browseView, domains, searchVars, proxyVars,
                       storedEndpoint, pageVars, now>>

\* the Clear History button, rendered when jobHistory.length > 0
clearHistory ==
    /\ browseView = "shown"
    /\ Len(jobHistory) > 0
    /\ historyStore' = NoItem
    /\ jobHistory' = <<>>
    /\ UNCHANGED <<resolverVars, browseView, domains, searchVars, proxyVars, cacheStore,
                   storedEndpoint, pageVars, now>>

\* the buttons "Remove from cache only" and "Clear Cache" of the opened page
browseRemoveCachedJob == browseView = "shown" /\ removeCachedJob
browseClearAllCache == browseView = "shown" /\ clearAllCache

submitBrowseJob ==
    \E input \in BrowseIds :
        /\ isAuthenticated
        /\ ~loading
        /\ validateJob(input, FALSE)

NextBrowse ==
    \/ submitBrowseJob
    \/ refreshJob
    \/ historyFetchOk
    \/ browseMount
    \/ browseLeave
    \/ \E jobId \in BrowseIds : removeJob(jobId)
    \/ browseRemoveCachedJob
    \/ clearHistory
    \/ browseClearAllCache

SpecBrowse == InitHistory /\ [][NextBrowse]_vars

----------------------------------------------------------------------------
(* Properties of the cache functions (SpecCache) *)

cachedJobsNow == getCachedJobs(cacheStore)
cachedJobsNext == getCachedJobs(cacheStore')
idsOf(jobs) == [k \in 1..Len(jobs) |-> jobs[k].id]
J(k) == DigitUuid(IdChars[k])

\* C1: after any sequence of insert, remove and clear from the empty cache, the
\* persisted cache holds at most 5 entries.
C1_AtMostFive == Len(cachedJobsNow) <= 5

\* the cache is full and its entries were written at two different times
C1_Witness ==
    /\ Len(cachedJobsNow) = 5
    /\ cachedJobsNow[1].timestamp > cachedJobsNow[5].timestamp

\* C2: after any sequence of insert, remove and clear from the empty cache, no two
\* entries of the persisted cache have the same jobId.
C2_DistinctIds ==
    \A i, k \in 1..Len(cachedJobsNow) : i # k => cachedJobsNow[i].id # cachedJobsNow[k].id

\* a job written again later stands before four jobs written earlier
C2_Witness ==
    /\ idsOf(cachedJobsNow) = <<J(1), J(5), J(4), J(3), J(2)>>
    /\ cachedJobsNow[1].timestamp > cachedJobsNow[2].timestamp

\* an insert of an id that is not cached into a full cache puts the new entry first and
\* keeps the first four old entries, in their order, behind it
C3_EvictsOldest ==
    \A jobId \in CacheIds, data \in CacheResponses :
        ( /\ insert(jobId, data)
          /\ Len(cachedJobsNow) = 5
          /\ \A k \in 1..5 : cachedJobsNow[k].id # jobId )
        => /\ Len(cachedJobsNext) = 5
           /\ cachedJobsNext[1].id = jobId
           /\ cachedJobsNext[1].data = data
           /\ \A k \in 1..4 : cachedJobsNext[k + 1] = cachedJobsNow[k]

\* the n-th insert of the run J1, J2, ..., J6 into the cache the run has built so far
C3_RunStep ==
    \A n \in 1..6, data \in CacheResponses :
        ( /\ insert(J(n), data)
          /\ idsOf(cachedJobsNow) = [k \in 1..(n - 1) |-> J(n - k)] )
        => idsOf(cachedJobsNext) = [k \in 1..(IF n < 5 THEN n ELSE 5) |-> J(n + 1 - k)]

\* C3: inserting a jobId that is not cached into a cache of 5 entries evicts exactly the
\* oldest (tail) entry and keeps the other four in order behind the new head; inserting
\* J1..J6 in order into the empty cache gives exactly [J6, J5, J4, J3, J2].
C3_InsertIntoFull == [][C3_EvictsOldest /\ C3_RunStep]_vars

\* the cache after J1..J6 were inserted in order
C3_Witness == idsOf(cachedJobsNow) = <<J(6), J(5), J(4), J(3), J(2)>>

\* C4: inserting a jobId that is already cached leaves the length unchanged, puts the
\* new entry for that jobId at the front, evicts no other entry and keeps the remaining
\* entries in their previous relative order.
C4_Reinsert ==
    [][\A jobId \in CacheIds, data \in CacheResponses :
         \A k \in 1..Len(cachedJobsNow) :
           (insert(jobId, data) /\ cachedJobsNow[k].id = jobId)
           => /\ Len(cachedJobsNext) = Len(cachedJobsNow)
              /\ cachedJobsNext[1] =
                   [id |-> jobId, data |-> data, timestamp |-> now, domain |-> domainOf[data]]
              /\ \A i \in 1..(k - 1) : cachedJobsNext[i + 1] = cachedJobsNow[i]
              /\ \A i \in (k + 1)..Len(cachedJobsNow) : cachedJobsNext[i] = cachedJobsNow[i]]_vars

\* the oldest of five jobs, written again later, stands first in a full cache
C4_Witness ==
    /\ idsOf(cachedJobsNow) = <<J(1), J(5), J(4), J(3), J(2)>>
    /\ cachedJobsNow[1].timestamp = 1
    /\ \A k \in 2..5 : cachedJobsNow[k].timestamp = 0

\* C5: after removeFromCache(J) a lookup of J finds nothing and every other entry is
\* still there in the same order; when J was not cached the contents are unchanged.
C5_Remove ==
    [][\A jobId \in CacheIds :
         remove(jobId)
         => /\ getFromCache(cacheStore', jobId) = Null
            /\ \A k \in 1..Len(cachedJobsNow) :
                 cachedJobsNow[k].id = jobId
                 => cachedJobsNext = SubSeq(cachedJobsNow, 1, k - 1)
                                       \o SubSeq(cachedJobsNow, k + 1, Len(cachedJobsNow))
            /\ (\A k \in 1..Len(cachedJobsNow) : cachedJobsNow[k].id # jobId)
                 => cachedJobsNext = cachedJobsNow]_vars

\* a removal from the middle: J3 is gone from J5..J1, the other four kept their order
C5_Witness ==
    /\ cacheStore.kind = "json"
    /\ idsOf(cachedJobsNow) = <<J(5), J(4), J(2), J(1)>>
    /\ \A k \in 1..4 : cachedJobsNow[k].timestamp = 0
    /\ now = 0

----------------------------------------------------------------------------
(* Properties of the validate flow (Spec) *)

\* the cache holds an entry for jobId
isCached(jobId) == \E k \in 1..Len(cachedJobsNow) : cachedJobsNow[k].id = jobId
cachedEntry(jobId) ==
    cachedJobsNow[CHOOSE k \in 1..Len(cachedJobsNow) : cachedJobsNow[k].id = jobId]

\* a validate that is not a forced refresh, of an input that resolves to a cached id,
\* displays the cached payload and issues no fetch
C6_HitServedFromCache ==
    \A input \in KnownInputs :
        ( /\ validateJob(input, FALSE)
          /\ isAuthenticated
          /\ extractJobIdOf[input].ok
          /\ isCached(extractJobIdOf[input].value) )
        => /\ result' = Some(cachedEntry(extractJobIdOf[input].value).data)
           /\ inflight' = inflight

\* refreshJob of the current job issues one fetch, for that job
C6_RefreshFetches ==
    (refreshJob /\ currentJobId # <<>>)
    => /\ Len(inflight') = Len(inflight) + 1
       /\ inflight'[Len(inflight')].jobId = currentJobId

\* C6: when the user is authenticated and the cache holds an entry for J, a validate of
\* J that is not a forced refresh displays the cached payload and issues no fetch; a
\* forced refresh (refreshJob) of J issues a fetch even when J is cached.
C6_CacheHitAndRefresh == [][C6_HitServedFromCache /\ C6_RefreshFetches]_vars

\* a refresh in flight for the job whose cached payload was on display
C6_Witness ==
    /\ isAuthenticated
    /\ loading
    /\ result = Null
    /\ Len(inflight) = 1
    /\ inflight[1].jobId = currentJobId
    /\ isCached(currentJobId)

\* the example URLs of a result in the order the result lists them
urlsOfCategory(category) ==
    IF category.key = "unique_sizes"
    THEN [k \in 1..Len(category.values) |-> category.values[k].sample_url]
    ELSE [k \in 1..Len(category.examples) |->
            IF category.examples[k].url # <<>> THEN category.examples[k].url
            ELSE category.examples[k].uurl]

RECURSIVE exampleUrls(_)
exampleUrls(entries) ==
    IF entries = <<>> THEN <<>>
    ELSE SelectSeq(urlsOfCategory(Head(entries)), LAMBDA url : url # <<>>)
           \o exampleUrls(Tail(entries))

firstUrlDomainOf(data) ==
    LET urls == IF data.result = Null THEN <<>> ELSE exampleUrls(data.result[1])
    IN  IF urls = <<>> THEN UNKNOWN ELSE extractDomain(Head(urls))

firstUrlDomain == [data \in Responses |-> firstUrlDomainOf(data)]

\* C7: after a validate of J that misses the cache and whose fetch succeeds, the cache
\* holds exactly one entry for J, at the front, with the fetched response as payload and
\* the domain derived from the first example URL of the result (UNKNOWN when none).
C7_FetchedIsCached ==
    [][\A i \in 1..Len(inflight), data \in Responses :
         fetchOk(i, data)
         => /\ cachedJobsNext # <<>>
            /\ cachedJobsNext[1].id = inflight[i].jobId
            /\ cachedJobsNext[1].data = data
            /\ cachedJobsNext[1].domain = firstUrlDomain[data]
            /\ Cardinality({k \in 1..Len(cachedJobsNext) :
                              cachedJobsNext[k].id = inflight[i].jobId}) = 1]_vars

\* a fetched result whose first example URL is in its second category is on display and
\* cached under the domain of that URL, in front of an entry for another job
C7_Witness ==
    /\ result = Some(ShopResponse)
    /\ ~loading
    /\ Len(cachedJobsNow) = 2
    /\ cachedJobsNow[1].id = currentJobId
    /\ cachedJobsNow[1].data = ShopResponse
    /\ cachedJobsNow[1].domain = <<"S", "H", "O", "P">>
    /\ cachedJobsNow[2].domain = UNKNOWN
    /\ cachedJobsNow[2].data = BadFirstResponse

----------------------------------------------------------------------------
(* Properties of extractJobId (SpecResolve) *)

\* the canonical textual form of a UUID: 36 characters, hyphens at 9, 14, 19 and 24,
\* hexadecimal digits of either case elsewhere
isCanonicalUuid(s) ==
    /\ Len(s) = 36
    /\ \A i \in 1..36 :
         IF i \in {9, 14, 19, 24} THEN s[i] = "-"
         ELSE s[i] \in Digits \cup LowerHex \cup UpperHex

hasSlash(s) == \E i \in 1..Len(s) : s[i] = "/"

\* what follows the last "/" of s
finalSegment(s) ==
    LET slashes == {i \in 1..Len(s) : s[i] = "/"}
        last == CHOOSE i \in slashes : \A k \in slashes : k <= i
    IN  IF slashes = {} THEN s ELSE SubSeq(s, last + 1, Len(s))

\* s without its trailing "/" characters
RECURSIVE dropTrailingSlashes(_)
dropTrailingSlashes(s) ==
    IF s # <<>> /\ s[Len(s)] = "/" THEN dropTrailingSlashes(SubSeq(s, 1, Len(s) - 1)) ELSE s

lastNonEmptySegment(s) == finalSegment(dropTrailingSlashes(s))

\* C8: for every canonical UUID string u of any letter case, resolve(u) equals
\* resolve(lowercase(u)).
C8_CaseNormalized ==
    (ret # Pending /\ isCanonicalUuid(arg)) => ret = extractJobId(toLowerCase(arg))

\* C9: for every slash-delimited URL whose last non-empty path segment is a canonical
\* UUID u, resolve(url) equals resolve(u), also when the URL ends with a slash.
C9_LastSegment ==
    (ret # Pending /\ arg = trim(arg) /\ hasSlash(arg) /\ isCanonicalUuid(lastNonEmptySegment(arg)))
    => ret = extractJobId(lastNonEmptySegment(arg))

\* C10: resolve fails with InvalidFormat exactly when the trimmed input is neither a
\* bare canonical UUID nor a slash-delimited path whose final segment is a canonical
\* UUID; whenever it returns, the value matches the 8-4-4-4-12 hexadecimal pattern.
C10_InvalidFormat ==
    ret # Pending
    => /\ ret.ok \/ ret.message = InvalidFormatMessage
       /\ ~ret.ok <=> ~( \/ isCanonicalUuid(trim(arg))
                         \/ hasSlash(trim(arg)) /\ isCanonicalUuid(finalSegment(trim(arg))) )
       /\ ret.ok => isCanonicalUuid(ret.value)

\* "not-a-uuid" was refused
C10_Witness == arg = NotAUuid /\ ret = Thrown(InvalidFormatMessage)

----------------------------------------------------------------------------
(* Properties of the stored and the fetched ids (Spec) *)

historyNow == storedJobIds(historyStore)

\* C11: starting from empty storage, after any sequence of validate, refresh, remove
\* and clear, every id stored in the cache or in the history and every jobId handed to
\* fetch matches the canonical UUID form.
C11_IdsAreCanonical ==
    /\ \A k \in 1..Len(cachedJobsNow) : isCanonicalUuid(cachedJobsNow[k].id)
    /\ \A k \in 1..Len(historyNow) : isCanonicalUuid(historyNow[k].id)
    /\ \A i \in 1..Len(inflight) : isCanonicalUuid(inflight[i].jobId)

\* the id taken from a URL is cached and in the history while another id is being fetched
C11_Witness ==
    /\ \E k \in 1..Len(cachedJobsNow) : cachedJobsNow[k].id = DigitUuid("7")
    /\ \E k \in 1..Len(historyNow) : historyNow[k].id = DigitUuid("7")
    /\ \E i \in 1..Len(inflight) : inflight[i].jobId = SampleUuid

----------------------------------------------------------------------------
(* Properties over corrupt storage (SpecCorrupt) *)

cacheIsCorrupt == cacheStore \in CorruptItems
historyIsCorrupt == historyStore \in CorruptItems

\* C12: when the persisted cache snapshot is corrupt or unparseable, every cache
\* operation behaves as if the cache were empty and no error reaches the caller: a
\* validate of a well-formed id is a miss that starts a fetch and shows no error, the
\* insert after the fetch leaves exactly the new entry, and the browse page opens.
C12_CorruptCacheIsEmpty ==
    [][ cacheIsCorrupt =>
          /\ \A inputValue \in PageInputs :
                ( /\ validateJob(inputValue, FALSE)
                  /\ isAuthenticated
                  /\ extractJobIdOf[inputValue].ok
                  /\ storedEndpoint # Null )
                => /\ Len(inflight') = Len(inflight) + 1
                   /\ inflight'[Len(inflight')].jobId = extractJobIdOf[inputValue].value
                   /\ error' = Null
          /\ \A i \in 1..Len(inflight), data \in Responses :
                fetchOk(i, data)
                => /\ cacheStore' = addToCache(NoItem, inflight[i].jobId, data, domainOf[data], now)
                   /\ error' = error
          /\ (browseMount /\ ~historyIsCorrupt) => browseView' = "shown" ]_vars

\* C13: when the persisted history is unparseable it is treated as empty: a validate
\* whose fetch succeeds ends with the result displayed and no error message shown, and
\* opening the browse page raises no error (stated where the cache snapshot is sound).
C13_CorruptHistoryIsEmpty ==
    [][ (parseThrows(historyStore) /\ ~cacheIsCorrupt) =>
          /\ \A i \in 1..Len(inflight), data \in Responses :
                fetchOk(i, data) => (result' = Some(data) /\ error' = Null)
          /\ browseMount => browseView' = "shown" ]_vars

----------------------------------------------------------------------------
(* Properties of the validate flow, continued (Spec) *)

\* C14: lookup never writes: a validate served from the cache leaves the persisted
\* cache snapshot (entries, order, timestamps) and the persisted history unchanged.
C14_LookupNeverWrites ==
    [][ \A inputValue \in KnownInputs :
          ( /\ validateJob(inputValue, FALSE)
            /\ isAuthenticated
            /\ trim(inputValue) # <<>>
            /\ extractJobIdOf[inputValue].ok
            /\ isCached(extractJobIdOf[inputValue].value) )
          => /\ cacheStore' = cacheStore
             /\ historyStore' = historyStore ]_vars

\* the job displayed from the cache is the older of two cached jobs, and still is
C14_Witness ==
    /\ isFromCache
    /\ result # Null
    /\ Len(cachedJobsNow) = 2
    /\ cachedJobsNow[2].id = currentJobId
    /\ result = Some(cachedJobsNow[2].data)
    /\ Len(historyNow) = 2

\* C15: a second validate can start a new fetch while an earlier one is in flight, and
\* whichever fetch completes last decides the displayed result and the cache entry
\* written, also when it is the earlier request: a successful completion always displays
\* and caches its payload, a validate never drops a request in flight, and a request
\* leaves only by completing.
C15_LastCompletionWins ==
    [][ /\ \A i \in 1..Len(inflight), data \in Responses :
              fetchOk(i, data)
              => /\ result' = Some(data)
                 /\ cachedJobsNext[1].id = inflight[i].jobId
                 /\ cachedJobsNext[1].data = data
                 /\ inflight' = removeAt(inflight, i)
        /\ \A inputValue \in KnownInputs, forceRefresh \in BOOLEAN :
              validateJob(inputValue, forceRefresh)
              => SubSeq(inflight', 1, Len(inflight)) = inflight
        /\ Len(inflight') < Len(inflight) => fetchCompletes ]_vars

\* the request issued first completed last: its job heads the cache and its payload is
\* displayed, while the job of the later request is the current one
C15_Witness ==
    /\ inflight = <<>>
    /\ currentJobId = SampleUuid
    /\ ~isFromCache
    /\ Len(cachedJobsNow) = 2
    /\ cachedJobsNow[1].id = DigitUuid("7")
    /\ cachedJobsNow[2].id = SampleUuid
    /\ cachedJobsNow[1].data # cachedJobsNow[2].data
    /\ result = Some(cachedJobsNow[1].data)

----------------------------------------------------------------------------
(* Properties of the domain extractors (SpecDomain) *)

\* s without the prefix when it starts with it
stripLeading(s, prefix) ==
    IF Len(s) >= Len(prefix) /\ SubSeq(s, 1, Len(prefix)) = prefix
    THEN SubSeq(s, Len(prefix) + 1, Len(s))
    ELSE s

\* C16: for every input, parseable or not, the cache-tagging extractor (extractDomain)
\* and the search extractor (extractDomainForSearch) return the same string.
C16_SameDomain ==
    domains # Null => domains[1].tag = domains[1].search

\* C17: the domain of a parseable URL is its hostname, lower-cased as parsed and with a
\* leading "www." stripped ("https://www.Shop.example.com/p" gives "shop.example.com"),
\* and the domain of an input that does not parse is the sentinel "UNKNOWN"; this is
\* what both extractors return.
C17_HostnameOrUnknown ==
    domains # Null
    => LET parsed == urlHostname(arg)
           expected == IF parsed.ok THEN stripLeading(parsed.hostname, <<"w", "w", "w", ".">>)
                       ELSE UNKNOWN
       IN  /\ domains[1].tag = expected
           /\ domains[1].search = expected

----------------------------------------------------------------------------
(* Properties of the domain search (SpecSearch) *)

\* the site parses as a URL and its hostname, without a leading "www.", contains the
\* query, compared in lower case
hostnameContains(site, query) ==
    LET parsed == urlHostname(site)
    IN  /\ parsed.ok
        /\ includes(toLowerCase(stripLeading(parsed.hostname, <<"w", "w", "w", ".">>)),
                    toLowerCase(query))

\* C18: the domain search returns, for a non-empty query, exactly the first 10 entries
\* in input order whose site hostname (with "www." stripped) contains the query
\* case-insensitively, and the empty sequence when the query is empty after stripping
\* the leading "@" or when the input does not start with "@".
C18_SearchResults ==
    [][ \A value \in SearchValues :
          handleInputChange(value)
          => searchResults' =
                IF value # <<>> /\ Head(value) = "@" /\ Tail(value) # <<>>
                THEN slice0(SelectSeq(jobEntries,
                                      LAMBDA entry : hostnameContains(entry.site, Tail(value))),
                            10)
                ELSE <<>> ]_vars

----------------------------------------------------------------------------
(* Properties of the proxy route (SpecProxy) *)

\* the endpoint the request names, the default one when it names none
endpointOf(req) ==
    IF req.endpoint \in {Null, Some(<<>>)} THEN DefaultProxyEndpoint ELSE req.endpoint[1]

\* C19: the proxy route rejects every jobId that is not a canonical UUID with status 400
\* and makes no request to the upstream endpoint in that case; for a canonical UUID it
\* forwards exactly one GET to <endpoint><jobId>.
C19_RejectsOrForwards ==
    request # Null
    => IF isCanonicalUuid(request[1].jobId)
       THEN /\ Len(upstream) = 1
            /\ upstream[1].method = "GET"
            /\ upstream[1].url = endpointOf(request[1]) \o request[1].jobId
       ELSE /\ upstream = <<>>
            /\ response # Null
            /\ response[1].status = 400

\* an upper-case UUID was forwarded to the endpoint the request named, and answered
C19_Witness ==
    /\ request # Null
    /\ request[1].jobId = UpperUuid
    /\ request[1].endpoint \in {Some(e) : e \in ProxyEndpoints}
    /\ Len(upstream) = 1
    /\ response # Null
    /\ response[1].status = 200

\* the upstream reply the route received was not 2xx
upstreamFailed ==
    /\ Len(upstream) = 1
    /\ upstream[1].reply # Null
    /\ ~responseOk(upstream[1].reply[1])

\* C20 as stated: when the upstream answers the proxy with a non-2xx response, the
\* proxy's response carries the upstream status code and the upstream body verbatim.
C20_BodyVerbatim ==
    upstreamFailed
    => /\ response # Null
       /\ response[1].status = upstream[1].reply[1].status
       /\ response[1].body = upstream[1].reply[1].body

\* C20, amended: when the upstream answers the proxy with a non-2xx response, the
\* proxy's response carries the upstream status code, and its body is the JSON object
\* whose error field is "External API error: <status> <statusText>"; the upstream body
\* is not handed on.
C20_StatusAndErrorBody ==
    upstreamFailed
    => /\ response # Null
       /\ response[1].status = upstream[1].reply[1].status
       /\ response[1].body =
             "{\"error\":\"External API error: "
                 \o ToString(upstream[1].reply[1].status) \o " "
                 \o upstream[1].reply[1].statusText \o "\"}"

\* the upstream said 404 with a JSON body of its own, and the route answered 404
C20_Witness ==
    /\ upstreamFailed
    /\ upstream[1].reply[1].status = 404
    /\ upstream[1].reply[1].body # ""
    /\ response # Null
    /\ response[1].status = 404

\* the route has answered although fetch rejected, or although the 2xx body did not parse
forwardThrew ==
    /\ Len(upstream) = 1
    /\ response # Null
    /\ \/ upstream[1].reply = Null
       \/ /\ upstream[1].reply # Null
          /\ responseOk(upstream[1].reply[1])
          /\ upstream[1].reply[1].parsed = Null

\* C21: when the proxy's forward to the upstream throws (network failure or unparseable
\* upstream body), the proxy answers with a generic server error (status 500) and the
\* exception does not escape: the answer is the route's own JSON error body.
C21_GenericServerError ==
    forwardThrew
    => /\ response[1].status = 500
       /\ response[1].body = "{\"error\":\"Internal server error\"}"

\* fetch rejected for a well-formed job id and the route answered 500
C21_Witness ==
    /\ request # Null
    /\ isCanonicalUuid(request[1].jobId)
    /\ Len(upstream) = 1
    /\ upstream[1].reply = Null
    /\ response # Null
    /\ response[1].status = 500

----------------------------------------------------------------------------
(* Properties of the history (SpecHistory) *)

historyNext == storedJobIds(historyStore')

\* C22: after any sequence of validations the persisted history holds at most 20
\* entries, no two with the same id, most recently fetched first: a successful fetch
\* of job J puts J at the front, keeps the other entries in their order behind it and,
\* when the history already holds 20 other ids, drops the last one.
C22_HistoryLastTwenty ==
    /\ [](/\ Len(historyNow) <= 20
          /\ \A i, k \in 1..Len(historyNow) : i # k => historyNow[i].id # historyNow[k].id)
    /\ [][ \A i \in 1..Len(inflight) :
              fetchOk(i, SizesResponse)
              => LET jobId == inflight[i].jobId
                     others == SelectSeq(historyNow, LAMBDA job : job.id # jobId)
                 IN  /\ historyNext[1].id = jobId
                     /\ Tail(historyNext) = SubSeq(others, 1, IF Len(others) < 19 THEN Len(others) ELSE 19)
                     /\ (Len(others) = 20
                         => \A k \in 1..Len(historyNext) : historyNext[k].id # others[20].id) ]_vars

\* twenty-one jobs were fetched in turn: the history holds the last twenty, newest first
C22_Witness ==
    /\ Len(historyNow) = 20
    /\ \A k \in 1..20 : historyNow[k].id = H(22 - k)

----------------------------------------------------------------------------
(* Properties of failing validates (Spec) *)

C24_FailureWritesNothing ==
    [][ /\ \A inputValue \in KnownInputs, forceRefresh \in BOOLEAN :
              (validateJob(inputValue, forceRefresh) /\ error' # Null)
              => (cacheStore' = cacheStore /\ historyStore' = historyStore)
        /\ \A i \in 1..Len(inflight) :
              ( \/ fetchThrows(i)
                \/ \E errorData \in ErrorResponses : fetchNotOk(i, errorData) )
              => (cacheStore' = cacheStore /\ historyStore' = historyStore) ]_vars

\* the forced refresh of the cached current job failed and its entry is still cached
C24_Witness ==
    /\ error = Some(FailedToFetchMessage)
    /\ inflight = <<>>
    /\ result = Null
    /\ isCached(currentJobId)
    /\ Len(cachedJobsNow) = 1
    /\ Len(historyNow) = 1

----------------------------------------------------------------------------
(* Properties of the validation gate (Spec) *)

\* C25: while the validation gate is closed (isAuthenticated is false), any validate
\* call, including the automatic one triggered by an id in the page URL, issues no
\* fetch, writes neither cache nor history, and leaves result, error and loading
\* unchanged; isAuthenticated becomes true only by an authenticate call whose trimmed
\* lower-cased group is in the allowed list.
C25_GateClosed ==
    [][ /\ ~isAuthenticated
           => \A inputValue \in KnownInputs, forceRefresh \in BOOLEAN :
                 validateJob(inputValue, forceRefresh)
                 => UNCHANGED <<inflight, cacheStore, historyStore, result, error, loading>>
        /\ (~isAuthenticated /\ isAuthenticated')
           => \E groupInput \in GroupInputs : authenticate(groupInput)
        /\ \A groupInput \in GroupInputs :
              authenticate(groupInput)
              => (isAuthenticated' <=> toLowerCase(trim(groupInput)) \in allowedGroups) ]_vars

\* the user has logged out with a job cached and an endpoint saved: a validate of that
\* job would be served, were the gate open
C25_Witness ==
    /\ ~isAuthenticated
    /\ storedEndpoint # Null
    /\ isCached(SampleUuid)
    /\ result = Null
    /\ inflight = <<>>

----------------------------------------------------------------------------
(* Properties of the dashboard's fetches that outlive the step that started them (Spec) *)

\* C26: after logout the displayed result stays empty and neither the cache nor the
\* history is written until the user authenticates again, also when a fetch started
\* before the logout completes after it: while the gate is closed no result is
\* displayed, the history item does not change and no entry enters the cache.
C26_QuietAfterLogout ==
    /\ [](~isAuthenticated => result = Null)
    /\ [][ ~isAuthenticated
             => /\ historyStore' = historyStore
                /\ Range(cachedJobsNext) \subseteq Range(cachedJobsNow) ]_vars

\* C27: in every reachable state of the validation page the displayed result and the
\* displayed error are not both non-empty.
C27_ResultOrError == ~(result # Null /\ error # Null)

\* C28: loading is true in every state in which a validate's fetch is in flight and
\* false whenever no validate call is in progress.
C28_LoadingWhileInFlight ==
    /\ inflight # <<>> => loading
    /\ inflight = <<>> => ~loading

----------------------------------------------------------------------------
(* Properties of the browse page (SpecBrowse) *)

hasId(jobs, jobId) == \E k \in 1..Len(jobs) : jobs[k].id = jobId

\* C29: on the browse page removeJob(J) removes J from both the persisted history and
\* the persisted cache; removeCachedJob(J) and clearAllCache remove only cache entries
\* and leave the persisted history unchanged; clearHistory leaves the persisted cache
\* unchanged.
C29_BrowseRemovals ==
    [][ /\ \A jobId \in BrowseIds :
              removeJob(jobId)
              => /\ ~hasId(historyNext, jobId)
                 /\ ~hasId(cachedJobsNext, jobId)
        /\ browseRemoveCachedJob
              => /\ historyStore' = historyStore
                 /\ Range(cachedJobsNext) \subseteq Range(cachedJobsNow)
                 /\ Len(cachedJobsNext) = Len(cachedJobsNow) - 1
        /\ browseClearAllCache
              => /\ historyStore' = historyStore
                 /\ cachedJobsNext = <<>>
        /\ clearHistory
              => /\ cacheStore' = cacheStore
                 /\ historyNext = <<>> ]_vars

\* removeJob has emptied a history and a cache that held jobs: only removeJob writes an
\* empty list as the history item
C29_Witness ==
    /\ browseView = "shown"
    /\ historyStore = JsonItem(<<>>)
    /\ cacheStore = JsonItem(<<>>)
    /\ currentJobId = H(2)

\* C30: starting from empty storage, after any sequence of validate, refresh and
\* browse-page operations, every job id that has a cache entry also has a history
\* entry.
C30_CachedIsListed ==
    \A k \in 1..Len(cachedJobsNow) : hasId(historyNow, cachedJobsNow[k].id)

====
